---- MODULE Spec2Model ----
(***************************************************************************)
(* Model of supar.structs.tree.ConstituencyCRF (src/supar/structs/tree.py) *)
(* and of the brute-force oracle of src/tests/test_struct.py.              *)
(*                                                                         *)
(* Numbers.  Scores are integers s, standing for the real score s * ln 2.  *)
(* A value of the Max / K-Max semiring is such an integer, or NegInf.      *)
(* A value x of the Log semiring is held as the natural number 2^x/ln2,    *)
(* i.e. as exp(x): log-sum-exp is then +, the log-space + is *, -inf is 0  *)
(* and 0 is 1, all exact.  Comparisons of Log values (>=, =) are made on   *)
(* these exponentials, which is the same order.                            *)
(***************************************************************************)
EXTENDS Integers, Sequences, FiniteSets, TLC

\* ----------------------------------------------------------------- bounds
MaxLen == 3      \* longest sentence; the position dimension is MaxLen + 1
BatchSize == 2   \* sentences per batch
NLabels == 2     \* size of the label axis when label reduction is on
MaxScore == 1    \* scores are drawn from 0..MaxScore
NumSeeds == 5    \* number of seeds the score tensors are drawn under
MaxK == 3        \* largest k of kmax(k)

seq_len == MaxLen + 1
Pos == 0..(seq_len - 1)
Batch == 0..(BatchSize - 1)
Labels == 0..(NLabels - 1)
Seeds == 0..(NumSeeds - 1)

\* ------------------------------------------------------------- semirings
\* MaxSemiring.zero / KMaxSemiring padding: -inf.
NegInf == -1000000

Plus(a, b) == IF a = NegInf \/ b = NegInf THEN NegInf ELSE a + b

RECURSIVE Exp2(_)
Exp2(x) == IF x <= 0 THEN 1 ELSE 2 * Exp2(x - 1)

MaxSemiring == [name |-> "Max", k |-> 1]
LogSemiring == [name |-> "Log", k |-> 1]
KMaxSemiring(k) == [name |-> "KMax", k |-> k]

\* A tensor holds its entries: the function is tabulated where it is built.
Tensor(f) == f @@ <<>>

\* The index of the first largest entry of a non-empty sequence
\* (torch.max / torch.topk: the first maximal value).
RECURSIVE ArgMaxFrom(_, _, _)
ArgMaxFrom(xs, n, best) ==
    IF n > Len(xs) THEN best
    ELSE ArgMaxFrom(xs, n + 1, IF xs[n] > xs[best] THEN n ELSE best)
ArgMaxSeq(xs) == ArgMaxFrom(xs, 2, 1)
MaxSeq(xs) == xs[ArgMaxSeq(xs)]

RemoveAt(xs, n) == Tensor([m \in 1..(Len(xs) - 1) |-> IF m < n THEN xs[m] ELSE xs[m + 1]])

\* x.topk(k): the k largest entries, largest first.
RECURSIVE TopK(_, _)
TopK(xs, k) ==
    IF k = 0 \/ Len(xs) = 0 THEN <<>>
    ELSE LET n == ArgMaxSeq(xs) IN <<xs[n]>> \o TopK(RemoveAt(xs, n), k - 1)

RECURSIVE SumSeq(_)
SumSeq(xs) == IF Len(xs) = 0 THEN 0 ELSE xs[1] + SumSeq(Tail(xs))

RECURSIVE Flatten(_)
Flatten(xss) == IF Len(xss) = 0 THEN <<>> ELSE xss[1] \o Flatten(Tail(xss))

\* semiring.zero
Zero(sr) ==
    CASE sr.name = "Max" -> NegInf
      [] sr.name = "Log" -> 0
      [] sr.name = "KMax" -> Tensor([m \in 1..sr.k |-> NegInf])

\* semiring.one
One(sr) ==
    CASE sr.name = "Max" -> 0
      [] sr.name = "Log" -> 1
      [] sr.name = "KMax" -> Tensor([m \in 1..sr.k |-> IF m = 1 THEN 0 ELSE NegInf])

\* semiring.convert of one raw score
Convert(sr, x) ==
    CASE sr.name = "Max" -> x
      [] sr.name = "Log" -> Exp2(x)
      [] sr.name = "KMax" -> Tensor([m \in 1..sr.k |-> IF m = 1 THEN x ELSE NegInf])

\* semiring.mul (times) of two values
Mul(sr, a, b) ==
    CASE sr.name = "Max" -> Plus(a, b)
      [] sr.name = "Log" -> a * b
      [] sr.name = "KMax" ->
            TopK(Tensor([m \in 1..(sr.k * sr.k) |->
                    Plus(a[((m - 1) \div sr.k) + 1], b[((m - 1) % sr.k) + 1])]), sr.k)

\* semiring.sum of a non-empty sequence of values along the reduced axis
Sum(sr, xs) ==
    CASE sr.name = "Max" -> MaxSeq(xs)
      [] sr.name = "Log" -> SumSeq(xs)
      [] sr.name = "KMax" -> TopK(Flatten(xs), sr.k)

\* semiring.dot: sum of the elementwise mul along the reduced axis
Dot(sr, xs, ys) == Sum(sr, Tensor([m \in 1..Len(xs) |-> Mul(sr, xs[m], ys[m])]))

\* -------------------------------------------------------------- inputs
\* The score tensors of the test: drawn under a seed, here from 0..MaxScore.
Randn(seed, b, i, j, l) ==
    (((seed + 1) * (31 * b + 17 * i + 13 * j + 7 * l + 3) + i * j + seed * l) % 11)
        % (MaxScore + 1)

VARIABLES
    scores,     \* self.scores: [b, i, j] or, with labels, [b, i, j, l]
    lens,       \* self.lens
    mask,       \* self.mask
    label,      \* self.label
    semiring,   \* forward's argument
    pc,         \* where the caller is
    fscores,    \* forward's local `scores`: converted, label-reduced, [i, j, b]
    s,          \* forward's chart, [i, j, b]
    w,          \* forward's loop variable
    result,     \* what forward returned, [b]
    raised,     \* the exception that reached the caller, if any
    argmax,     \* the argmax property: per sentence, the nonzero indices
    value,      \* the gold chart handed to score, [b, i, j]
    scored,     \* what score returned, [b]: an integer, the score over ln 2
    writes,     \* history: how often forward wrote each cell of its chart, [i, j]
    reads       \* history: the chart cells the step of each width read, [w]

vars == <<scores, lens, mask, label, semiring, pc, fscores, s, w, result, raised,
          argmax, value, scored, writes, reads>>

\* no tensor (yet), no semiring (yet), no exception
Nothing == <<>>
NoSemiring == [name |-> "None", k |-> 0]
NoError == "none"
IndexError == "IndexError"

\* Mutant of Mask: the length is compared without the + 1.
Mask_NoPlusOne(ls) ==
    [b \in Batch, i \in Pos, j \in Pos |-> (ls[b] > j) /\ (i < j)]

\* ConstituencyCRF.__init__: the mask
Mask(ls) ==
    [b \in Batch, i \in Pos, j \in Pos |-> (ls[b] + 1 > j) /\ (i < j)]

ScoreTensor(seed, lab) ==
    IF lab
    THEN [b \in Batch, i \in Pos, j \in Pos, l \in Labels |-> Randn(seed, b, i, j, l)]
    ELSE [b \in Batch, i \in Pos, j \in Pos |-> Randn(seed, b, i, j, 0)]

\* The length vectors: every pair of lengths for the first two sentences, each
\* from 0 to n (n is one past the largest valid length), continued through the
\* batch with the same step.
LengthVector(first, step) == Tensor([b \in Batch |-> (first + step * b) % (seq_len + 1)])

\* the widths of the loop of lines 102-106
Widths == 2..(seq_len - 1)
\* a chart no cell of which was written, and no step of which has run
NoWrites == Tensor([i \in Pos, j \in Pos |-> 0])
NoReads == Tensor([ww \in Widths |-> {}])

Init ==
    /\ \E seed \in Seeds, lab \in BOOLEAN : /\ label = lab
                                            /\ scores = ScoreTensor(seed, lab)
    /\ \E first \in 0..seq_len, step \in 0..seq_len : lens = LengthVector(first, step)
    /\ mask = Mask(lens)
    /\ semiring = NoSemiring
    /\ pc = "ready"
    /\ fscores = Nothing
    /\ s = Nothing
    /\ w = 0
    /\ result = Nothing
    /\ raised = NoError
    /\ argmax = Nothing
    /\ value = Nothing
    /\ scored = Nothing
    /\ writes = NoWrites
    /\ reads = NoReads

\* ------------------------------------------------------------- forward
\* Mutant of LocalScores: the label axis is indexed at 0 instead of reduced.
LocalScores_FirstLabel(sr, scs, lab) ==
    Tensor([i \in Pos, j \in Pos, b \in Batch |->
        IF lab THEN Convert(sr, scs[b, i, j, 0]) ELSE Convert(sr, scs[b, i, j])])

\* lines 97-98: movedim, convert, and the reduction of the label axis
LocalScores(sr, scs, lab) ==
    Tensor([i \in Pos, j \in Pos, b \in Batch |->
        IF lab THEN Sum(sr, Tensor([l \in 1..NLabels |-> Convert(sr, scs[b, i, j, l - 1])]))
        ELSE Convert(sr, scs[b, i, j])])

\* Mutant of OnDiagonal: the diagonal below the main one, s.diagonal(-ww).
OnDiagonal_Below(i, j, ww) == i = j + ww

\* s.diagonal(ww): the cells (i, i + ww)
OnDiagonal(i, j, ww) == j = i + ww

\* Mutant of DiagInit: the chart starts from ones instead of zeros.
DiagInit_Ones(sr, fs) ==
    Tensor([i \in Pos, j \in Pos, b \in Batch |->
        IF OnDiagonal(i, j, 1) THEN fs[i, j, b] ELSE One(sr)])

\* lines 99-100: a chart of zeros with the width-1 diagonal copied in
DiagInit(sr, fs) ==
    Tensor([i \in Pos, j \in Pos, b \in Batch |->
        IF OnDiagonal(i, j, 1) THEN fs[i, j, b] ELSE Zero(sr)])

\* stripe(s, n, w-1, (0, 1)): row i holds s[i, i+1 .. i+w-1]
StripeLeftIndex(i, m) == <<i, i + m>>
StripeLeft(ch, i, ww, b) ==
    Tensor([m \in 1..(ww - 1) |-> ch[StripeLeftIndex(i, m) \o <<b>>]])
\* stripe(s, n, w-1, (1, w), False): row i holds s[i+1 .. i+w-1, i+w]
StripeRightIndex(i, ww, m) == <<i + m, i + ww>>
StripeRight(ch, i, ww, b) ==
    Tensor([m \in 1..(ww - 1) |-> ch[StripeRightIndex(i, ww, m) \o <<b>>]])
\* the cells the two views of width ww cover, over their n = seq_len - ww rows
StripeCells(ww) ==
    UNION {{StripeLeftIndex(i, m), StripeRightIndex(i, ww, m)} :
              i \in 0..(seq_len - ww - 1), m \in 1..(ww - 1)}

\* Mutant of WidthStep: only the first split point of each span is taken.
WidthStep_FirstSplitOnly(sr, ch, fs, ww) ==
    Tensor([i \in Pos, j \in Pos, b \in Batch |->
        IF OnDiagonal(i, j, ww)
        THEN Mul(sr, Mul(sr, ch[i, i + 1, b], ch[i + 1, j, b]), fs[i, j, b])
        ELSE ch[i, j, b]])

\* Mutant of WidthStep: the span's own score is not multiplied in.
WidthStep_NoSpanScore(sr, ch, fs, ww) ==
    Tensor([i \in Pos, j \in Pos, b \in Batch |->
        IF OnDiagonal(i, j, ww)
        THEN Dot(sr, StripeLeft(ch, i, ww, b), StripeRight(ch, i, ww, b))
        ELSE ch[i, j, b]])

\* lines 103-106: one pass of the loop body, for width ww
WidthStep(sr, ch, fs, ww) ==
    Tensor([i \in Pos, j \in Pos, b \in Batch |->
        IF OnDiagonal(i, j, ww)
        THEN Mul(sr, Dot(sr, StripeLeft(ch, i, ww, b), StripeRight(ch, i, ww, b)), fs[i, j, b])
        ELSE ch[i, j, b]])

\* Mutant of ExtractIndex: the last column is read whatever the length is.
ExtractIndex_LastColumn(ls, b) == <<0, seq_len - 1, b>>

\* line 107: s[0][self.lens, range(batch_size)]: the cell read for sentence b
ExtractIndex(ls, b) == <<0, ls[b], b>>
\* (an index past the last position raises IndexError)
ExtractRaises(ls) == \E b \in Batch : ls[b] > seq_len - 1
Extract(ch, ls) == Tensor([b \in Batch |-> ch[ExtractIndex(ls, b)]])

\* lines 102-106: the loop from width ww on
RECURSIVE Loop(_, _, _, _)
Loop(sr, ch, fs, ww) ==
    IF ww >= seq_len THEN ch ELSE Loop(sr, WidthStep(sr, ch, fs, ww), fs, ww + 1)

\* forward(semiring) on a score tensor, when it returns
Forward(sr, scs) ==
    LET fs == LocalScores(sr, scs, label) IN Extract(Loop(sr, DiagInit(sr, fs), fs, 2), lens)

\* the semirings forward is called with: max, log_partition, kmax(k)
Semirings == {MaxSemiring, LogSemiring} \cup {KMaxSemiring(k) : k \in 1..MaxK}

ForwardBegin ==
    /\ pc = "ready"
    /\ \E sr \in Semirings : semiring' = sr
    /\ fscores' = LocalScores(semiring', scores, label)
    /\ s' = DiagInit(semiring', fscores')
    /\ w' = 2
    /\ pc' = "loop"
    /\ writes' = Tensor([i \in Pos, j \in Pos |->
                    writes[i, j] + (IF OnDiagonal(i, j, 1) THEN 1 ELSE 0)])
    /\ UNCHANGED <<scores, lens, mask, label, result, raised, argmax, value, scored, reads>>

ForwardWidth ==
    /\ pc = "loop"
    /\ w < seq_len
    /\ s' = WidthStep(semiring, s, fscores, w)
    /\ w' = w + 1
    /\ writes' = Tensor([i \in Pos, j \in Pos |->
                    writes[i, j] + (IF OnDiagonal(i, j, w) THEN 1 ELSE 0)])
    /\ reads' = [reads EXCEPT ![w] = StripeCells(w)]
    /\ UNCHANGED <<scores, lens, mask, label, semiring, pc, fscores, result, raised,
                   argmax, value, scored>>

ForwardReturn ==
    /\ pc = "loop"
    /\ w >= seq_len
    /\ IF ExtractRaises(lens)
       THEN result' = Nothing /\ raised' = IndexError
       ELSE result' = Extract(s, lens) /\ raised' = NoError
    /\ pc' = "done"
    /\ UNCHANGED <<scores, lens, mask, label, semiring, fscores, s, w, argmax, value, scored,
                   writes, reads>>

\* --------------------------------------------------------------- score
\* lines 85-90: the tensor that is summed: the score of a cell (of its gold
\* label, with labels) where mask & value.ge(0), LogSemiring.one elsewhere.
\* In log space LogSemiring.one is 0 and LogSemiring.prod is the plain sum.
Gathered(scs, lab, msk, val) ==
    [b \in Batch, i \in Pos, j \in Pos |->
        IF msk[b, i, j] /\ val[b, i, j] >= 0
        THEN (IF lab THEN scs[b, i, j, val[b, i, j]] ELSE scs[b, i, j])
        ELSE 0]

\* line 91: LogSemiring.prod over the last axis, then over the one before
ScoreOf(scs, lab, msk, val) ==
    LET g == Gathered(scs, lab, msk, val) IN
    [b \in Batch |->
        SumSeq([i \in 1..seq_len |-> SumSeq([j \in 1..seq_len |-> g[b, i - 1, j - 1]])])]

\* Gold charts.  A bracketing of [i, j] is the set of its spans.
RECURSIVE Trees(_, _)
RECURSIVE TreesFrom(_, _, _)
Trees(i, j) ==
    IF j <= i THEN <<>>
    ELSE IF j = i + 1 THEN << {<<i, j>>} >>
    ELSE TreesFrom(i, j, i + 1)
TreesFrom(i, j, k) ==
    IF k >= j THEN <<>>
    ELSE LET ls == Trees(i, k)
             rs == Trees(k, j)
         IN Tensor([m \in 1..(Len(ls) * Len(rs)) |->
                {<<i, j>>} \cup ls[((m - 1) \div Len(rs)) + 1] \cup rs[((m - 1) % Len(rs)) + 1]])
            \o TreesFrom(i, j, k + 1)

\* The c-th bracketing of each sentence, span (i, j) labelled (i + j + lp) mod
\* NLabels; -1 (not a constituent) everywhere else.
TreeChart(c, lp) ==
    LET tree == Tensor([b \in Batch |->
                    LET ts == Trees(0, IF lens[b] <= seq_len - 1 THEN lens[b] ELSE 0)
                    IN IF Len(ts) > 0 THEN ts[(c % Len(ts)) + 1] ELSE {}])
    IN Tensor([b \in Batch, i \in Pos, j \in Pos |->
            IF <<i, j>> \in tree[b] THEN (i + j + lp) % NLabels ELSE -1])

\* A chart with no structure: any cell may be flagged, the diagonal, the lower
\* triangle and the cells past the sentence included.
NoiseChart(seed) ==
    Tensor([b \in Batch, i \in Pos, j \in Pos |->
        ((Randn(seed, b, j, i, 1) + 2 * i + j + b) % (NLabels + 1)) - 1])

\* the number of bracketings of the longest sentence the tensor can hold
MaxTrees == Len(Trees(0, MaxLen))
GoldCharts ==
    {TreeChart(c, lp) : c \in 0..(MaxTrees - 1), lp \in Labels}
        \cup {NoiseChart(seed) : seed \in Seeds}
        \cup {Tensor([b \in Batch, i \in Pos, j \in Pos |-> -1]),
              Tensor([b \in Batch, i \in Pos, j \in Pos |-> 0])}

Score ==
    /\ pc = "ready"
    /\ \E val \in GoldCharts : value' = val
    /\ scored' = ScoreOf(scores, label, mask, value')
    /\ pc' = "scored"
    /\ UNCHANGED <<scores, lens, mask, label, semiring, fscores, s, w, result, raised, argmax,
                   writes, reads>>

\* -------------------------------------------------------------- argmax
\* backward(max.sum()): the gradient of the sum of forward(MaxSemiring) with
\* respect to the scores, by reverse differentiation of forward.  A max sends
\* its gradient to the first of its largest arguments, a sum to every argument.

\* the split the dot of width ww picked for the span starting at i
PickedSplit(ch, i, ww, b) ==
    ArgMaxSeq(Tensor([m \in 1..(ww - 1) |->
        Mul(MaxSemiring, StripeLeft(ch, i, ww, b)[m], StripeRight(ch, i, ww, b)[m])]))

\* the gradient with respect to the chart before the step of width ww, from
\* the gradient after it: each span of width ww hands its gradient to the
\* two parts of its picked split
GradStep(g, ch, ww) ==
    Tensor([i \in Pos, j \in Pos, b \in Batch |->
        g[i, j, b]
        + (IF i < j /\ i + ww \in Pos /\ g[i, i + ww, b] # 0
              /\ j = i + PickedSplit(ch, i, ww, b)
           THEN g[i, i + ww, b] ELSE 0)
        + (IF i < j /\ j - ww \in Pos /\ g[j - ww, j, b] # 0
              /\ i = (j - ww) + PickedSplit(ch, j - ww, ww, b)
           THEN g[j - ww, j, b] ELSE 0)])

RECURSIVE GradLoop(_, _, _)
GradLoop(g, ch, ww) == IF ww < 2 THEN g ELSE GradLoop(GradStep(g, ch, ww), ch, ww - 1)

\* the gradient with respect to self.scores of sentence b's chart cells:
\* a written cell (i < j) hands its gradient to its score, and with labels
\* the label reduction hands it to the first of the largest label scores
Backward(ch, scs, lab, ls) ==
    LET g0 == Tensor([i \in Pos, j \in Pos, b \in Batch |->
                  IF <<i, j, b>> = ExtractIndex(ls, b) THEN 1 ELSE 0])
        g == GradLoop(g0, ch, seq_len - 1)
    IN IF lab
       THEN Tensor([b \in Batch, i \in Pos, j \in Pos, l \in Labels |->
                IF i < j /\ l + 1 = ArgMaxSeq(Tensor([m \in 1..NLabels |-> scs[b, i, j, m - 1]]))
                THEN g[i, j, b] ELSE 0])
       ELSE Tensor([b \in Batch, i \in Pos, j \in Pos |-> IF i < j THEN g[i, j, b] ELSE 0])

\* lines 77-79: torch.nonzero of each sentence's gradient
NonZero(grad, lab, b) ==
    IF lab
    THEN {x \in Pos \X Pos \X Labels : grad[b, x[1], x[2], x[3]] # 0}
    ELSE {x \in Pos \X Pos : grad[b, x[1], x[2]] # 0}

Argmax ==
    /\ pc = "done"
    /\ semiring = MaxSemiring
    /\ raised = NoError
    /\ LET grad == Backward(s, scores, label, lens)
       IN argmax' = Tensor([b \in Batch |-> NonZero(grad, label, b)])
    /\ pc' = "decoded"
    /\ UNCHANGED <<scores, lens, mask, label, semiring, fscores, s, w, result, raised,
                   value, scored, writes, reads>>

\* the spans of a decoded tree
Spans(tree) == {<<x[1], x[2]>> : x \in tree}

\* the argmax written into a gold chart: the label of each span (0 without
\* labels), -1 elsewhere
ArgmaxChart ==
    Tensor([b \in Batch, i \in Pos, j \in Pos |->
        IF <<i, j>> \in Spans(argmax[b])
        THEN (IF label THEN (CHOOSE x \in argmax[b] : x[1] = i /\ x[2] = j)[3] ELSE 0)
        ELSE -1])

ScoreArgmax ==
    /\ pc = "decoded"
    /\ value' = ArgmaxChart
    /\ scored' = ScoreOf(scores, label, mask, value')
    /\ pc' = "rescored"
    /\ UNCHANGED <<scores, lens, mask, label, semiring, fscores, s, w, result, raised, argmax,
                   writes, reads>>

\* ------------------------------------------------- brute-force oracle
\* The largest score a tree can have: 2 * MaxLen - 1 spans of MaxScore each.
MaxTotal == MaxScore * (2 * MaxLen - 1)
Totals == 0..MaxTotal

\* s[i, j].unbind(-1): the scores of span (i, j), one per label
\* (one only when the tensor has no label axis: scores.unsqueeze(-1)).
Unbind(b, i, j) ==
    IF label THEN Tensor([l \in 1..NLabels |-> scores[b, i, j, l - 1]])
    ELSE <<scores[b, i, j]>>

\* The enumerated list of tree scores is held as a multiset: how many of the
\* yielded values equal t, for every t.
CountOf(xs, t) == Cardinality({m \in 1..Len(xs) : xs[m] = t})
UnitBag(b, i, j) == Tensor([t \in Totals |-> CountOf(Unbind(b, i, j), t)])
EmptyBag == Tensor([t \in Totals |-> 0])
BagAdd(x, y) == Tensor([t \in Totals |-> x[t] + y[t]])
\* every semiring.times(t, t1, t2): the sums of one value of each list
BagTimes(x, y) ==
    Tensor([t \in Totals |-> SumSeq([m \in 1..(t + 1) |-> x[m - 1] * y[t - (m - 1)]])])

RECURSIVE Enumerate(_, _, _)
RECURSIVE EnumerateSplits(_, _, _, _)
\* the inner generator enumerate(s, i, j) of BruteForceConstituencyCRF
Enumerate(b, i, j) ==
    BagAdd(IF i + 1 = j THEN UnitBag(b, i, j) ELSE EmptyBag,
           EnumerateSplits(b, i, j, i + 1))
\* its loop `for k in range(i + 1, j)`, from split k on
EnumerateSplits(b, i, j, k) ==
    IF k >= j THEN EmptyBag
    ELSE BagAdd(BagTimes(UnitBag(b, i, j), BagTimes(Enumerate(b, i, k), Enumerate(b, k, j))),
                EnumerateSplits(b, i, j, k + 1))

\* BruteForceConstituencyCRF.enumerate for sentence b
BruteTrees(b) == Enumerate(b, 0, lens[b])
\* BruteForceStructuredDistribution.count
BruteCount(b) ==
    LET bag == BruteTrees(b) IN SumSeq([m \in 1..(MaxTotal + 1) |-> bag[m - 1]])
\* BruteForceStructuredDistribution.max: MaxSemiring.sum of the list
BruteMax(b) ==
    LET bag == BruteTrees(b) IN
    CHOOSE t \in Totals : bag[t] > 0 /\ \A u \in Totals : bag[u] > 0 => u <= t
\* BruteForceStructuredDistribution.log_partition: LogSemiring.sum of the list
BruteLogPartition(b) ==
    LET bag == BruteTrees(b) IN
    SumSeq([m \in 1..(MaxTotal + 1) |-> bag[m - 1] * Exp2(m - 1)])

\* BruteForceStructuredDistribution.kmax: topk(k) of the list, largest first
RECURSIVE TopKBag(_, _, _)
TopKBag(bag, t, k) ==
    IF k = 0 \/ t < 0 THEN <<>>
    ELSE LET n == IF bag[t] < k THEN bag[t] ELSE k IN
         [m \in 1..n |-> t] \o TopKBag(bag, t - 1, k - n)
BruteKmax(b, k) == TopKBag(BruteTrees(b), MaxTotal, k)

\* C1: with per-label scores, forward under the Max and the Log semiring
\* returns, for every sentence with 1 <= lens[b] <= n-1, the semiring-sum over
\* all labelled binary trees of the semiring-product of their span scores,
\* i.e. what the brute-force enumeration returns.
C1_BruteForceEquivalence ==
    (pc = "done" /\ label /\ raised = NoError /\ semiring.name \in {"Max", "Log"}) =>
        \A b \in Batch : lens[b] >= 1 =>
            result[b] = IF semiring.name = "Max" THEN BruteMax(b) ELSE BruteLogPartition(b)

\* A labelled run over a full-length sentence with more than one bracketing,
\* whose trees do not all score the same, and a shorter sentence beside it.
C1_Witness ==
    /\ pc = "done" /\ label /\ semiring.name = "Log" /\ raised = NoError
    /\ lens[0] = MaxLen /\ lens[1] >= 1 /\ lens[1] < MaxLen
    /\ BruteCount(0) > NLabels
    /\ result[0] = BruteLogPartition(0)
    /\ result[0] # BruteCount(0) * Exp2(BruteMax(0))

\* ---------------------------------------------------------------- claims
\* the plain sum of the scores of a set of cells of sentence b, each taken at
\* the label the gold chart gives it when the tensor has a label axis
RECURSIVE SumCells(_, _)
SumCells(cells, b) ==
    IF cells = {} THEN 0
    ELSE LET c == CHOOSE x \in cells : TRUE IN
         (IF label THEN scores[b, c[1], c[2], value[b, c[1], c[2]]] ELSE scores[b, c[1], c[2]])
            + SumCells(cells \ {c}, b)

\* the cells of the gold chart that are flagged as constituents
Flagged(b) == {c \in Pos \X Pos : value[b, c[1], c[2]] >= 0}
\* the strict upper triangle bounded by the sentence length
Valid(b, i, j) == 0 <= i /\ i < j /\ j <= lens[b]
ValidCells(b) == {c \in Pos \X Pos : Valid(b, c[1], c[2])}

\* two spans are nested or disjoint
Compatible(x, y) ==
    \/ (x[1] <= y[1] /\ y[2] <= x[2])
    \/ (y[1] <= x[1] /\ x[2] <= y[2])
    \/ x[2] <= y[1]
    \/ y[2] <= x[1]

\* a set of spans is one binary tree over [0, n]
IsBinaryTree(spans, n) ==
    /\ Cardinality(spans) = 2 * n - 1
    /\ \A x \in spans : 0 <= x[1] /\ x[1] < x[2] /\ x[2] <= n
    /\ <<0, n>> \in spans
    /\ \A x \in spans, y \in spans : Compatible(x, y)

\* the lazy properties max and log_partition, when forward returns
max == Forward(MaxSemiring, scores)
log_partition == Forward(LogSemiring, scores)

\* exp of a Max-semiring value, to compare it with a Log-semiring value
ExpOf(x) == IF x = NegInf THEN 0 ELSE Exp2(x)

\* Score tensors that agree with self.scores on the valid cells of sentence b
\* and differ from it elsewhere: everywhere else a tensor drawn under another
\* seed, or every other cell changed.  Elsewhere(b, alt) keeps sentence b's
\* valid cells and takes every other cell from alt.
Elsewhere(b, alt) ==
    IF label
    THEN [bb \in Batch, i \in Pos, j \in Pos, l \in Labels |->
            IF bb = b /\ Valid(b, i, j) THEN scores[bb, i, j, l]
            ELSE alt[bb, i, j, l]]
    ELSE [bb \in Batch, i \in Pos, j \in Pos |->
            IF bb = b /\ Valid(b, i, j) THEN scores[bb, i, j]
            ELSE alt[bb, i, j]]
Shifted ==
    IF label
    THEN [bb \in Batch, i \in Pos, j \in Pos, l \in Labels |->
            (scores[bb, i, j, l] + 1) % (MaxScore + 1)]
    ELSE [bb \in Batch, i \in Pos, j \in Pos |-> (scores[bb, i, j] + 1) % (MaxScore + 1)]
\* the n-th of them
Repadded(b, n) ==
    IF n \in Seeds THEN Elsewhere(b, ScoreTensor(n, label)) ELSE Elsewhere(b, Shifted)
Repaddings == 0..NumSeeds

\* C2: two score tensors that agree on the cells 0 <= i < j <= lens[b] of
\* sentence b and differ elsewhere (past lens[b], on the diagonal, below it,
\* in the other sentences) give sentence b the same max, the same
\* log_partition and the same score(value).
C2_PaddingInvariance ==
    /\ (pc = "done" /\ raised = NoError /\ semiring.name \in {"Max", "Log"}) =>
            \A b \in Batch, n \in Repaddings :
                Forward(semiring, Repadded(b, n))[b] = result[b]
    /\ (pc = "scored") =>
            \A b \in Batch, n \in Repaddings :
                ScoreOf(Repadded(b, n), label, Mask(lens), value)[b] = scored[b]

\* A short sentence whose padding was changed in every cell, and a run that
\* read the padding of the unchanged tensor would have returned another value.
C2_Witness ==
    /\ pc = "done" /\ raised = NoError /\ semiring.name = "Log"
    /\ lens[0] = 2
    /\ \A c \in (Pos \X Pos) \ ValidCells(0) :
            Elsewhere(0, Shifted)[<<0, c[1], c[2]>> \o (IF label THEN <<0>> ELSE <<>>)]
                # scores[<<0, c[1], c[2]>> \o (IF label THEN <<0>> ELSE <<>>)]
    /\ Forward(semiring, Elsewhere(0, Shifted))[0] = result[0]
    /\ s[0, seq_len - 1, 0] # result[0]

\* C3 as stated: for every length vector argmax is, for each sentence, one
\* binary tree over [0, lens[b]]: exactly 2 * lens[b] - 1 spans with
\* 0 <= i < j <= lens[b], the top span among them, every two nested or disjoint.
C3_ArgmaxIsTreeForEveryLength ==
    (pc = "decoded") =>
        \A b \in Batch :
            /\ Cardinality(argmax[b]) = 2 * lens[b] - 1
            /\ IsBinaryTree(Spans(argmax[b]), lens[b])

\* C3, amended: for every length vector within 0..n-1, argmax is one binary
\* tree over [0, lens[b]] for each sentence with lens[b] >= 1 (ties included),
\* so non-empty, and the empty list for a sentence with lens[b] = 0.
C3_ArgmaxIsTree ==
    (pc = "decoded") =>
        \A b \in Batch :
            /\ lens[b] >= 1 =>
                /\ Cardinality(argmax[b]) = 2 * lens[b] - 1
                /\ IsBinaryTree(Spans(argmax[b]), lens[b])
                /\ argmax[b] # {}
            /\ lens[b] = 0 => argmax[b] = {}

\* A decoded full-length sentence for which several labelled trees tie for the
\* maximum, beside a shorter one.
C3_Witness ==
    /\ pc = "decoded"
    /\ lens[0] = MaxLen /\ lens[1] \in 1..(MaxLen - 1)
    /\ BruteTrees(0)[BruteMax(0)] > 1
    /\ IsBinaryTree(Spans(argmax[0]), MaxLen)
    /\ IsBinaryTree(Spans(argmax[1]), lens[1])

LongLength == \E b \in Batch : lens[b] > seq_len - 1

C6_LongLengthRejected ==
    LongLength =>
        /\ ~(pc = "scored" /\ raised = NoError)
        /\ ~(pc = "loop" /\ w > 2)
        /\ ~(pc = "done" /\ raised = NoError)

\* C7: for every structurally valid gold chart (the flagged cells of sentence
\* b are one binary tree over [0, lens[b]]) log_partition[b] >= score(value)[b],
\* i.e. log_prob(value)[b] <= 0, and log_partition[b] >= max[b].
C7_LogProbNonPositive ==
    /\ (pc \in {"scored", "rescored"} /\ ~LongLength) =>
            LET z == log_partition IN
            \A b \in Batch :
                IsBinaryTree(Flagged(b), lens[b]) => z[b] >= ExpOf(scored[b])
    /\ (pc = "done" /\ semiring = LogSemiring /\ raised = NoError) =>
            LET best == max IN \A b \in Batch : result[b] >= ExpOf(best[b])

\* A labelled gold tree of a full-length sentence that is not the best tree,
\* scored: its score is below max, which is below log_partition.
C7_Witness ==
    /\ pc = "scored" /\ label /\ ~LongLength
    /\ lens[0] = MaxLen
    /\ IsBinaryTree(Flagged(0), MaxLen)
    /\ scored[0] < max[0]
    /\ ExpOf(max[0]) < log_partition[0]

\* C8: for k >= 1 not larger than the number of labelled binary trees of the
\* sentence, kmax(k) is the k largest tree scores of the enumeration, counted
\* with multiplicity, in non-increasing order, and its first entry is max.
C8_KmaxIsTopK ==
    (pc = "done" /\ semiring.name = "KMax" /\ raised = NoError) =>
        LET best == max IN
        \A b \in Batch :
            semiring.k <= BruteCount(b) =>
                /\ result[b] = BruteKmax(b, semiring.k)
                /\ \A m \in 1..(semiring.k - 1) : result[b][m] >= result[b][m + 1]
                /\ result[b][1] = best[b]

\* kmax(MaxK) of a sentence with at least MaxK trees, whose best score is
\* reached by more than one tree and whose MaxK-th best is smaller.
C8_Witness ==
    /\ pc = "done" /\ semiring = KMaxSemiring(MaxK) /\ raised = NoError
    /\ \E b \in Batch :
        /\ MaxK <= BruteCount(b)
        /\ result[b][1] = result[b][2]
        /\ result[b][MaxK] < result[b][1]
        /\ result[b] = BruteKmax(b, MaxK)

\* C9: score(value) validates nothing and returns, for each sentence, the
\* plain sum of the scores (of the gold label's score, with labels) of exactly
\* the flagged cells with 0 <= i < j <= lens[b]; flagged cells outside that
\* triangle add nothing, and charts that are no tree are scored the same way.
C9_ScoreIsMaskedSum ==
    (pc \in {"scored", "rescored"}) =>
        /\ raised = NoError
        /\ \A b \in Batch : scored[b] = SumCells(Flagged(b) \cap ValidCells(b), b)

\* A chart that is no tree, with flagged cells on the diagonal, below it and
\* past the sentence, whose flagged cells would sum to more than was returned.
C9_Witness ==
    /\ pc = "scored"
    /\ \E b \in Batch :
        /\ lens[b] = 2
        /\ ~IsBinaryTree(Flagged(b), lens[b])
        /\ \E c \in Flagged(b) : c[1] = c[2]
        /\ \E c \in Flagged(b) : c[1] > c[2]
        /\ \E c \in Flagged(b) : c[1] < c[2] /\ c[2] > lens[b]
        /\ scored[b] > 0
        /\ scored[b] < SumCells(Flagged(b), b)


\* the states where forward holds a chart: inside the loop and when it returns
InForward == pc \in {"loop", "done"}

\* C11 as stated: in every state of the recursion and at its end, every chart
\* cell outside 0 <= i < j <= lens[b] (the diagonal, the lower triangle, the
\* cells past lens[b]) holds semiring-zero, and the width-1 diagonal holds the
\* label-reduced scores of the unit spans.
C11_InvalidRegionIsZero ==
    InForward =>
        LET fs == LocalScores(semiring, scores, label) IN
        \A i \in Pos, j \in Pos, b \in Batch :
            /\ (j = i + 1 /\ Valid(b, i, j)) => s[i, j, b] = fs[i, j, b]
            /\ ~Valid(b, i, j) => s[i, j, b] = Zero(semiring)

\* C11, amended: in every state of the recursion and at its end, the cells
\* with i >= j and the cells of a width the loop has not reached yet hold
\* semiring-zero; the width-1 diagonal holds the label-reduced scores of the
\* unit spans, and every cell of a width already processed holds a value that
\* is not semiring-zero, in both cases past lens[b] as well as within it:
\* forward never consults lens or the mask before it returns.
C11_UnwrittenCellsAreZero ==
    InForward =>
        LET fs == LocalScores(semiring, scores, label) IN
        \A i \in Pos, j \in Pos, b \in Batch :
            /\ (i >= j \/ j >= i + w) => s[i, j, b] = Zero(semiring)
            /\ j = i + 1 => s[i, j, b] = fs[i, j, b]
            /\ (i < j /\ j < i + w) => s[i, j, b] # Zero(semiring)

\* The recursion has ended on valid lengths and the top cell of a sentence
\* shorter than the tensor holds a value, while its lower triangle is zero.
C11_Witness ==
    /\ pc = "done" /\ raised = NoError
    /\ \E b \in Batch :
        LET fs == LocalScores(semiring, scores, label) IN
        /\ lens[b] >= 1 /\ lens[b] < seq_len - 1
        /\ ~Valid(b, 0, seq_len - 1)
        /\ s[0, seq_len - 1, b] # Zero(semiring)
        /\ s[seq_len - 1, 0, b] = Zero(semiring)
        /\ s[lens[b], lens[b] + 1, b] = fs[lens[b], lens[b] + 1, b]


\* the cells (i, k) and (k, i + ww) with i < k < i + ww, over 0 <= i < n - ww
SplitCells(ww) ==
    {c \in Pos \X Pos :
        \E i \in 0..(seq_len - ww - 1) : \E k \in (i + 1)..(i + ww - 1) :
            c = <<i, k>> \/ c = <<k, i + ww>>}

\* C12: forward processes the widths in increasing order 1, 2, ..., n-1.  Once
\* the chart is allocated, the step for width w writes exactly the cells
\* (i, i + w) with 0 <= i < n - w, so that the cells written so far are those
\* of the widths below the loop variable and each cell is written at most
\* once; the step for width w reads only the cells (i, k) and (k, i + w) with
\* i < k < i + w, which are of a width below w, were written before and are
\* not written again; no cell with row >= column is ever read or written.
C12_WidthsInOrder ==
    InForward =>
        /\ w \in 2..seq_len
        /\ \A i \in Pos, j \in Pos :
            /\ writes[i, j] <= 1
            /\ writes[i, j] = 1 <=> (i < j /\ j - i < w)
        /\ \A ww \in Widths :
            IF ww < w
            THEN /\ reads[ww] = SplitCells(ww)
                 /\ \A c \in reads[ww] :
                        c[1] < c[2] /\ c[2] - c[1] < ww /\ writes[c[1], c[2]] = 1
            ELSE reads[ww] = {}

\* The loop has run through every width: the widest step read the unit span
\* (0, 1) and the widest span but one, and wrote the top cell, once.
C12_Witness ==
    /\ pc = "done" /\ raised = NoError /\ w = seq_len
    /\ <<0, 1>> \in reads[seq_len - 1]
    /\ <<1, seq_len - 1>> \in reads[seq_len - 1]
    /\ Cardinality(reads[seq_len - 1]) = 2 * (seq_len - 2)
    /\ writes[0, seq_len - 1] = 1
    /\ writes[seq_len - 1, 0] = 0
    /\ s[0, seq_len - 1, 0] # Zero(semiring)


Next ==
    \/ ForwardBegin
    \/ ForwardWidth
    \/ ForwardReturn
    \/ Score
    \/ Argmax
    \/ ScoreArgmax

Spec == Init /\ [][Next]_vars
====
